---- MODULE Spec2Model ----
(***************************************************************************)
(* decgen: generation of decorators for Go interfaces.                     *)
(*                                                                         *)
(* Five specifications share this module.                                  *)
(*   Spec    the run of Generator.Generate as started by cmd.Execute:      *)
(*           package resolution, program loading, the walk over the type   *)
(*           declarations, validation, template processing, file write.    *)
(*   SpecFn  the rendering of one method body: the template functions      *)
(*           signature, results, call / callgrpcadapter, returnerr and     *)
(*           returnok applied to one method signature.                     *)
(*   SpecMutex  goroutines calling the methods of one decorator generated  *)
(*           from mutexTemplate.                                           *)
(*   SpecTx  calls of a method of a decorator generated from               *)
(*           sqltxTemplate.                                                *)
(*   SpecCli the command: cmd.Execute from flag parsing to Generate.       *)
(* Strings are Go strings; a Go slice is a sequence; a slice index i of    *)
(* the source is position i + 1 here.                                      *)
(***************************************************************************)
EXTENDS Integers, Sequences, FiniteSets, TLC

VARIABLES
    pc,         \* position of the run inside Generate
    template,   \* the decorator kind, key of Templates
    sname,      \* visitor.sname, the requested interface name
    qualified,  \* sourcePath # destPath
    walked,     \* the type declarations ast.Walk has handed to Visit so far
    methods,    \* visitor.methods
    verr,       \* visitor.err
    rendered,   \* the text held by the generator after ProcessTemplate
    writes,     \* calls of WriteToFilename
    file,       \* content of the output file
    result,     \* what Generate returned
    fpc,        \* position inside one rendered method body
    fkind,      \* the template the method body belongs to
    fsig,       \* the method signature being rendered
    fout,       \* the strings the template functions returned so far
    vcalls,     \* the calls of the validators made by processInterface
    gpc,        \* mutex decorator: where each goroutine is inside a method
    mutex,      \* mutex decorator: t.mutex is locked
    gcalls,     \* mutex decorator: calls each goroutine has completed
    tpc,        \* sqltx decorator: where each call is inside the method
    txs,        \* sqltx decorator: the transactions db.Begin handed out
    cli         \* the command: flags, position in Execute, exit status

genVars == <<pc, template, sname, qualified, walked, methods, verr, rendered,
             writes, file, result, vcalls>>

fnVars == <<fpc, fkind, fsig, fout>>

mutexVars == <<gpc, mutex, gcalls>>

txVars == <<tpc, txs>>

rtVars == <<mutexVars, txVars, cli>>

vars == <<genVars, fnVars, rtVars>>

----------------------------------------------------------------------------
(* Bounds *)

\* longest parameter list of a rendered method
MaxParams == 3

\* longest result list of a rendered method
MaxResults == 2

\* most type declarations in the walked package
MaxDecls == 2

----------------------------------------------------------------------------
(* Types as go/types presents them: str is the printed type               *)
(* (generator.Param.Type), cls the dynamic type of OriginalType, under    *)
(* the printed underlying type (for a Basic type, its name).              *)

Ty(s, c, u) == [str |-> s, cls |-> c, under |-> u]

TContext == Ty("context.Context", "Named", "interface{...}")
TError == Ty("error", "Named", "interface{Error() string}")
TInt64 == Ty("int64", "Basic", "int64")
TString == Ty("string", "Basic", "string")
TBool == Ty("bool", "Basic", "bool")
TInt == Ty("int", "Basic", "int")
TMyID == Ty("pkg.MyID", "Named", "int64")
TMyName == Ty("pkg.MyName", "Named", "string")
TMyFlag == Ty("pkg.MyFlag", "Named", "bool")
TMyStruct == Ty("pkg.MyStruct", "Named", "struct{}")
TRequest == Ty("*pkg.Request", "Pointer", "*pkg.Request")
TResponse == Ty("*pkg.Response", "Pointer", "*pkg.Response")
TOpts == Ty("[]grpc.CallOption", "Slice", "[]grpc.CallOption")

\* a parameter: its type and whether it is the variadic last parameter
Param(t, v) == [type |-> t, variadic |-> v]

\* a method signature
Sig(ps, rs) == [params |-> ps, results |-> rs]

----------------------------------------------------------------------------
(* String helpers of package strings *)

RECURSIVE Join(_, _)
Join(elems, sep) ==
    IF Len(elems) = 0 THEN ""
    ELSE IF Len(elems) = 1 THEN elems[1]
    ELSE elems[1] \o sep \o Join(Tail(elems), sep)

HasSuffix(s, suffix) ==
    /\ Len(s) >= Len(suffix)
    /\ SubSeq(s, Len(s) - Len(suffix) + 1, Len(s)) = suffix

HasPrefix(s, prefix) ==
    /\ Len(s) >= Len(prefix)
    /\ SubSeq(s, 1, Len(prefix)) = prefix

TrimSuffix(s, suffix) ==
    IF HasSuffix(s, suffix) THEN SubSeq(s, 1, Len(s) - Len(suffix)) ELSE s

TrimPrefix(s, prefix) ==
    IF HasPrefix(s, prefix) THEN SubSeq(s, Len(prefix) + 1, Len(s)) ELSE s

----------------------------------------------------------------------------
(* The template functions of decgen.go.  f is a method signature; the     *)
(* generator's FuncParams(f) and FuncResults(f) are f.params, f.results.  *)

\* what a template function hands back to text/template
Value(v) == [status |-> "ok", val |-> v]
Failure(msg) == [status |-> "error", val |-> msg]
Panic(msg) == [status |-> "panic", val |-> msg]

\* generator.Param.Pass: the declared name, followed by "..." when variadic
ParamPass(param) == IF param.variadic THEN "p..." ELSE "p"

\* paramName naming every second parameter req, whatever the length
paramNameReqAtOne(index, paramSet) ==
    LET param == paramSet[index + 1] IN
    IF param.type.str = "context.Context" /\ index = 0 THEN "ctx"
    ELSE IF index = 1 THEN "req"
    ELSE "param" \o ToString(index)

paramName(index, paramSet) ==
    LET param == paramSet[index + 1] IN
    IF param.type.str = "context.Context" /\ index = 0 THEN "ctx"
    ELSE IF Len(paramSet) = 2 /\ index = 1 THEN "req"
    ELSE "param" \o ToString(index)

\* the slice `names` of FuncSignature before it is joined
SignatureNames(params) ==
    [i \in 1..Len(params) |->
        LET param == params[i]
            paramType == IF HasSuffix(ParamPass(param), "...")
                         THEN "..." \o TrimPrefix(param.type.str, "[]")
                         ELSE param.type.str
        IN paramName(i - 1, params) \o " " \o paramType]

FuncSignature(f) ==
    LET returns == [i \in 1..Len(f.results) |-> f.results[i].str] IN
    Value("(" \o Join(SignatureNames(f.params), ", ") \o ") ("
              \o Join(returns, ", ") \o ")")

\* the slice `names` of FuncCall before it is joined
CallNames(params) == [i \in 1..Len(params) |-> paramName(i - 1, params)]

FuncCall(f) == Value(Join(CallNames(f.params), ", "))

\* FuncGRPCAdapterServer replacing the first "Client" of the name
GRPCAdapterServerFirstOccurrence(s) ==
    IF ~HasSuffix(s, "Client")
    THEN Failure("the specified interface wasn't a client")
    ELSE IF HasPrefix(s, "Client") THEN Value("Server" \o TrimPrefix(s, "Client"))
    ELSE Value(TrimSuffix(s, "Client") \o "Server")

FuncGRPCAdapterServer(s) ==
    IF ~HasSuffix(s, "Client")
    THEN Failure("the specified interface wasn't a client")
    ELSE Value(TrimSuffix(s, "Client") \o "Server")

\* FuncCallGRPCAdapter without the break: every parameter is forwarded
GRPCAdapterNamesAll(params) ==
    [i \in 1..Len(params) |-> paramName(i - 1, params)]

\* the slice `names` of FuncCallGRPCAdapter: the loop breaks at the last index
GRPCAdapterNames(params) ==
    [i \in 1..(IF Len(params) = 0 THEN 0 ELSE Len(params) - 1) |->
        paramName(i - 1, params)]

FuncCallGRPCAdapter(f) == Value(Join(GRPCAdapterNames(f.params), ", "))

\* a result that closes the list with the type error
IsTerminalError(results, i) == results[i].str = "error" /\ i = Len(results)

\* the switch on the printed type the program had before: a named type
\* falls through to nil
EmptyValueByPrintedType(t) ==
    IF t.str = "int64" THEN Value("0")
    ELSE IF t.str = "string" THEN Value("\"\"")
    ELSE IF t.str = "bool" THEN Value("false")
    ELSE IF t.cls = "Basic" THEN Panic("no nil value for basic type known: " \o t.str)
    ELSE Value("nil")

\* EmptyValue refusing every type that is neither named nor basic
EmptyValueRefusingComposite(t) ==
    IF t.cls = "Named" THEN
        IF t.under = "int64" THEN Value("0")
        ELSE IF t.under = "string" THEN Value("\"\"")
        ELSE IF t.under = "bool" THEN Value("false")
        ELSE Panic("no nil value for named type known: " \o t.str \o ", " \o t.under)
    ELSE IF t.cls = "Basic" THEN
        IF t.str = "int64" THEN Value("0")
        ELSE IF t.str = "string" THEN Value("\"\"")
        ELSE IF t.str = "bool" THEN Value("false")
        ELSE Panic("no nil value for basic type known: " \o t.str)
    ELSE Panic("no nil value for type known: " \o t.str)

\* the type switch of FuncReturnErr on one result
EmptyValue(t) ==
    IF t.cls = "Named" THEN
        IF t.under = "int64" THEN Value("0")
        ELSE IF t.under = "string" THEN Value("\"\"")
        ELSE IF t.under = "bool" THEN Value("false")
        ELSE Panic("no nil value for named type known: " \o t.str \o ", " \o t.under)
    ELSE IF t.cls = "Basic" THEN
        IF t.str = "int64" THEN Value("0")
        ELSE IF t.str = "string" THEN Value("\"\"")
        ELSE IF t.str = "bool" THEN Value("false")
        ELSE Panic("no nil value for basic type known: " \o t.str)
    ELSE Value("nil")

\* the loop of FuncReturnErr without the break at the closing error, which
\* gets the value nil
RECURSIVE ReturnErrLoopPastError(_, _, _)
ReturnErrLoopPastError(results, i, acc) ==
    IF i > Len(results) THEN Value(acc)
    ELSE IF IsTerminalError(results, i) THEN Value(Append(acc, "nil"))
    ELSE LET e == EmptyValue(results[i]) IN
         IF e.status = "panic" THEN e
         ELSE ReturnErrLoopPastError(results, i + 1, Append(acc, e.val))

\* the loop of FuncReturnErr from result i on: emptyValues so far is acc
RECURSIVE ReturnErrLoop(_, _, _)
ReturnErrLoop(results, i, acc) ==
    IF i > Len(results) \/ IsTerminalError(results, i) THEN Value(acc)
    ELSE LET e == EmptyValue(results[i]) IN
         IF e.status = "panic" THEN e
         ELSE ReturnErrLoop(results, i + 1, Append(acc, e.val))

FuncReturnErr(f) ==
    LET loop == ReturnErrLoop(f.results, 1, <<>>) IN
    IF loop.status = "panic" THEN loop
    ELSE IF Len(loop.val) = 0 THEN Value("")
    ELSE Value(Join(loop.val, ", ") \o ",")

\* the slice resultArguments of FuncResults
ResultArguments(results) ==
    [i \in 1..Len(results) |->
        IF IsTerminalError(results, i) THEN "err" ELSE "arg" \o ToString(i - 1)]

\* FuncResults with the operator := for every result list
FuncResultsAlwaysDeclaring(f) ==
    Value(Join(ResultArguments(f.results), ", ") \o " := ")

FuncResults(f) ==
    LET resultArguments == ResultArguments(f.results)
        assignmentOperator ==
            IF Len(resultArguments) = 1 /\ f.results[1].str = "error"
            THEN "=" ELSE ":="
    IN Value(Join(resultArguments, ", ") \o " " \o assignmentOperator \o " ")

FuncMutates(name) == Value(TRUE)

\* FuncReturnOK without the replacement of the closing error by nil
ReturnOKKeepingError(f) ==
    Value(Join([i \in 1..Len(f.results) |-> "arg" \o ToString(i - 1)], ", "))

FuncReturnOK(f) ==
    LET resultArguments ==
            [i \in 1..Len(f.results) |->
                IF IsTerminalError(f.results, i) THEN "nil"
                ELSE "arg" \o ToString(i - 1)]
    IN Value(Join(resultArguments, ", "))

----------------------------------------------------------------------------
(* The templates of templates.go, as far as the method body goes: the     *)
(* template functions a method body calls, in the order text/template     *)
(* meets them, and the lines built from what they return.                 *)

Templates == {"sqltx", "trace", "grpcadapter", "mutex"}

\* the function calls of one pass through the range body of a template
Body(kind) ==
    IF kind = "grpcadapter"
    THEN <<"signature", "results", "callgrpcadapter", "returnerr", "returnok">>
    ELSE IF kind = "sqltx"
    THEN <<"signature", "mutates", "returnerr", "results", "call",
           "returnerr", "returnerr", "returnerr", "returnok">>
    ELSE <<"signature", "results", "call", "returnerr", "returnok">>

\* the function map Generate registers with AddTemplateFunc
TemplateFunc(fn, methodName, f) ==
    IF fn = "call" THEN FuncCall(f)
    ELSE IF fn = "signature" THEN FuncSignature(f)
    ELSE IF fn = "returnerr" THEN FuncReturnErr(f)
    ELSE IF fn = "results" THEN FuncResults(f)
    ELSE IF fn = "returnok" THEN FuncReturnOK(f)
    ELSE IF fn = "callgrpcadapter" THEN FuncCallGRPCAdapter(f)
    ELSE FuncMutates(methodName)

\* nothing returned yet
NoOutput == [fn \in {"signature", "results", "call", "callgrpcadapter",
                     "mutates", "returnerr", "returnok"} |-> "<none>"]

\* `return {{returnerr $method}} errors.WithStack(err)`
ErrReturn(out) == "return " \o out["returnerr"] \o " errors.WithStack(err)"

\* `return {{returnok $method}}`
OkReturn(out) == "return " \o out["returnok"]

\* `{{results $method}} t.next.{{$methodName}}({{call $method}})`
DelegateCall(kind, methodName, out) ==
    out["results"] \o " "
        \o (IF kind = "sqltx" THEN "repository." ELSE "t.next.")
        \o methodName \o "("
        \o (IF kind = "grpcadapter" THEN out["callgrpcadapter"] ELSE out["call"])
        \o ")"

----------------------------------------------------------------------------
(* SpecFn: one method body is rendered, one template function at a time.  *)

ParamTypes == {TContext, TRequest}

ResultTypes == {TInt64, TString, TBool, TInt, TMyID, TMyName, TMyFlag,
                TMyStruct, TResponse, TError}

SeqsUpTo(S, n) == UNION {[1..k -> S] : k \in 0..n}

\* parameter lists: any types, the last parameter possibly variadic
ParamLists ==
    {[i \in 1..Len(ts) |-> Param(ts[i], FALSE)] : ts \in SeqsUpTo(ParamTypes, MaxParams)}
    \cup {Append([i \in 1..Len(ts) |-> Param(ts[i], FALSE)], Param(TOpts, TRUE)) :
            ts \in SeqsUpTo(ParamTypes, MaxParams - 1)}

\* result types with four different zero values: 0, "", false, nil
ZeroedTypes == {TInt64, TString, TBool, TResponse}

\* result lists: up to MaxResults results of any types, and MaxResults
\* results with a zero value each closed by an error
ResultLists ==
    SeqsUpTo(ResultTypes, MaxResults)
    \cup {Append(rs, TError) : rs \in [1..MaxResults -> ZeroedTypes]}

\* no text: nothing rendered, nothing in the file
NoText == [next |-> "", bodies |-> <<>>]

\* the method name the body is rendered for
FnMethodName == "Do"

\* no decorator generated from mutexTemplate is running
MutexIdle ==
    /\ gpc = <<>>
    /\ mutex = FALSE
    /\ gcalls = <<>>

\* no decorator generated from sqltxTemplate is running
TxIdle ==
    /\ tpc = <<>>
    /\ txs = <<>>

\* the command is not running
CliIdle == cli = [at |-> "idle"]

RtIdle == MutexIdle /\ TxIdle /\ CliIdle

GenIdle ==
    /\ pc = "idle"
    /\ template = "mutex"
    /\ sname = ""
    /\ qualified = FALSE
    /\ walked = <<>>
    /\ methods = <<>>
    /\ verr = ""
    /\ rendered = NoText
    /\ writes = 0
    /\ file = NoText
    /\ result = "<none>"
    /\ vcalls = <<>>

InitFn ==
    /\ GenIdle
    /\ RtIdle
    /\ fkind \in Templates
    /\ fsig \in {Sig(ps, rs) : ps \in ParamLists, rs \in ResultLists}
    /\ fpc = 1
    /\ fout = NoOutput

\* fpc of a body that was aborted by a failing template function
Aborted == 0

\* the template engine calls fn at the current position of the body
Eval(fn) ==
    /\ fpc \in 1..Len(Body(fkind))
    /\ Body(fkind)[fpc] = fn
    /\ LET r == TemplateFunc(fn, FnMethodName, fsig) IN
        IF r.status = "ok"
        THEN /\ fout' = [fout EXCEPT ![fn] = r.val]
             /\ fpc' = fpc + 1
        ELSE /\ fout' = [fout EXCEPT ![fn] = "<" \o r.status \o ">"]
             /\ fpc' = Aborted
    /\ UNCHANGED <<fkind, fsig>>
    /\ UNCHANGED <<genVars, rtVars>>

EvalSignature == Eval("signature")
EvalResults == Eval("results")
EvalCall == Eval("call")
EvalCallGRPCAdapter == Eval("callgrpcadapter")
EvalMutates == Eval("mutates")
EvalReturnErr == Eval("returnerr")
EvalReturnOK == Eval("returnok")

NextFn ==
    \/ EvalSignature
    \/ EvalResults
    \/ EvalCall
    \/ EvalCallGRPCAdapter
    \/ EvalMutates
    \/ EvalReturnErr
    \/ EvalReturnOK

SpecFn == InitFn /\ [][NextFn]_vars

\* the body was rendered to its end
FnDone == fpc = Len(Body(fkind)) + 1

----------------------------------------------------------------------------
(* Spec: one run of Generate, started by Execute with the shipped         *)
(* validator.                                                             *)

\* ShippedValidator without the check of the first parameter's type
ValidatorLengthOnly(f) ==
    IF Len(f.params) = 0 THEN "first param must be context.Context" ELSE ""

\* the validator Execute registers
ShippedValidator(f) ==
    IF Len(f.params) = 0 \/ f.params[1].type.str # "context.Context"
    THEN "first param must be context.Context"
    ELSE ""

\* errors.Wrap and errors.Wrapf: the message of the wrapped error
Wrap(err, msg) == msg \o ": " \o err

\* the method names of the model, in the order go/types and text/template
\* sort them
MethodNames == <<"Get", "Put">>

SigGood == Sig(<<Param(TContext, FALSE), Param(TRequest, FALSE)>>, <<TResponse, TError>>)
SigNoParams == Sig(<<>>, <<TError>>)
SigNoContext == Sig(<<Param(TRequest, FALSE)>>, <<TError>>)
SigNoZero == Sig(<<Param(TContext, FALSE)>>, <<TInt, TError>>)

Method(n, f) == [name |-> n, sig |-> f]

\* the method sets of the interfaces of the model, each sorted by name
MethodSets ==
    {<<>>}
    \cup {<<Method("Get", f)>> : f \in {SigGood, SigNoParams, SigNoContext, SigNoZero}}
    \cup {<<Method("Get", f), Method("Put", g)>> :
            f \in {SigGood, SigNoParams, SigNoContext, SigNoZero},
            g \in {SigGood, SigNoContext}}

\* the interface names Execute is asked for
InterfaceNames == {"Foo", "FooClient", "ClientFooClient"}

\* the names of the declarations of a package walked for interface s: s
\* itself and a name that differs from it by the suffix alone
DeclNames(s) == {s, IF s = "Foo" THEN "FooClient" ELSE "Foo"}

\* the type declarations (ast.TypeSpec) a walk can meet.  Names repeat
\* only between a package-level declaration and declarations local to a
\* function body, which ast.Walk visits as well.
Decls(s) ==
    {[name |-> n, kind |-> "interface", methods |-> ms] :
        n \in DeclNames(s), ms \in MethodSets}
    \cup {[name |-> n, kind |-> "struct", methods |-> <<>>] : n \in DeclNames(s)}

FnIdle ==
    /\ fpc = Aborted
    /\ fkind = "mutex"
    /\ fsig = Sig(<<>>, <<>>)
    /\ fout = NoOutput

Init ==
    /\ pc = "sourcePath"
    /\ template \in Templates
    /\ sname \in InterfaceNames
    /\ qualified \in BOOLEAN
    /\ walked = <<>>
    /\ methods = <<>>
    /\ verr = ""
    /\ rendered = NoText
    /\ writes = 0
    /\ file = NoText
    /\ result = "<none>"
    /\ vcalls = <<>>
    /\ FnIdle
    /\ RtIdle

\* Generate returns err (the empty string stands for nil)
Return(err) ==
    /\ pc' = "done"
    /\ result' = IF err = "" THEN "<nil>" ELSE err

\* generator.PackageOf(sourcePackage)
PackageOfSource ==
    /\ pc = "sourcePath"
    /\ \E ok \in BOOLEAN :
        IF ok THEN pc' = "destPath" /\ UNCHANGED result
        ELSE Return(Wrap("no such package", "failed to get sourcePath"))
    /\ UNCHANGED <<template, sname, qualified, walked, methods, verr, rendered,
                   writes, file, vcalls>>
    /\ UNCHANGED <<fnVars, rtVars>>

\* generator.PackageOf(filepath.Dir(outputFile))
PackageOfDest ==
    /\ pc = "destPath"
    /\ \E ok \in BOOLEAN :
        IF ok THEN pc' = "load" /\ UNCHANGED result
        ELSE Return(Wrap("no such package", "failed to get destPath"))
    /\ UNCHANGED <<template, sname, qualified, walked, methods, verr, rendered,
                   writes, file, vcalls>>
    /\ UNCHANGED <<fnVars, rtVars>>

\* g.createProgram, then the set-up of the generator and of the visitor
CreateProgram ==
    /\ pc = "load"
    /\ \E ok \in BOOLEAN :
        IF ok THEN pc' = "walk" /\ UNCHANGED result
        ELSE Return(Wrap("load failed", "failed to create program"))
    /\ UNCHANGED <<template, sname, qualified, walked, methods, verr, rendered,
                   writes, file, vcalls>>
    /\ UNCHANGED <<fnVars, rtVars>>

\* v.methods[name] = signature
Put(m, name, f) ==
    [n \in DOMAIN m \cup {name} |-> IF n = name THEN f ELSE m[n]]

\* the loop of processInterface from method i on, going on to the next
\* method after a validator failed and returning the first error at the end
RECURSIVE ProcessFromValidatingAll(_, _, _)
ProcessFromValidatingAll(ms, i, m) ==
    IF i > Len(ms) THEN [methods |-> m, err |-> "", calls |-> <<>>]
    ELSE LET err == ShippedValidator(ms[i].sig)
             rest == ProcessFromValidatingAll(ms, i + 1,
                        IF err # "" THEN m ELSE Put(m, ms[i].name, ms[i].sig))
         IN [methods |-> rest.methods,
             err |-> IF err # ""
                     THEN Wrap(err, "failed to validate method '" \o ms[i].name \o "'")
                     ELSE rest.err,
             calls |-> <<ms[i].name>> \o rest.calls]

\* the loop of processInterface from method i on; calls are the methods the
\* validators were called for
RECURSIVE ProcessFrom(_, _, _)
ProcessFrom(ms, i, m) ==
    IF i > Len(ms) THEN [methods |-> m, err |-> "", calls |-> <<>>]
    ELSE LET err == ShippedValidator(ms[i].sig) IN
         IF err # ""
         THEN [methods |-> m,
               err |-> Wrap(err, "failed to validate method '" \o ms[i].name \o "'"),
               calls |-> <<ms[i].name>>]
         ELSE LET rest == ProcessFrom(ms, i + 1, Put(m, ms[i].name, ms[i].sig)) IN
              [rest EXCEPT !.calls = <<ms[i].name>> \o @]

processInterface(t, m) == ProcessFrom(t.methods, 1, m)

\* visitor.Visit on the next type declaration of the walk
Visit ==
    /\ pc = "walk"
    /\ Len(walked) < MaxDecls
    /\ \E ts \in Decls(sname), resolved \in BOOLEAN :
        /\ IF ~resolved
           THEN \* log.Fatal(err): the process exits
                /\ pc' = "fatal"
                /\ UNCHANGED <<walked, methods, verr, vcalls>>
           ELSE /\ pc' = pc
                /\ walked' = Append(walked, ts)
                /\ IF ts.kind = "interface" /\ ts.name = sname /\ verr = ""
                   THEN LET p == processInterface(ts, methods) IN
                        /\ methods' = p.methods
                        /\ verr' = p.err
                        /\ vcalls' = vcalls \o
                                [j \in 1..Len(p.calls) |->
                                    [decl |-> Len(walked) + 1, method |-> p.calls[j]]]
                   ELSE UNCHANGED <<methods, verr, vcalls>>
    /\ UNCHANGED <<template, sname, qualified, rendered, writes, file, result>>
    /\ UNCHANGED <<fnVars, rtVars>>

\* EndWalk without the test of v.err
EndWalkIgnoringErr ==
    /\ pc = "walk"
    /\ pc' = "render"
    /\ UNCHANGED <<template, sname, qualified, walked, methods, verr, rendered,
                   writes, file, result, vcalls>>
    /\ UNCHANGED <<fnVars, rtVars>>

\* the walk is over: `if v.err != nil`
EndWalk ==
    /\ pc = "walk"
    /\ IF verr # ""
       THEN Return(Wrap(verr, "failed to parse interface"))
       ELSE pc' = "render" /\ UNCHANGED result
    /\ UNCHANGED <<template, sname, qualified, walked, methods, verr, rendered,
                   writes, file, vcalls>>
    /\ UNCHANGED <<fnVars, rtVars>>

\* the variable $interfaceName of the templates
InterfaceVar == IF qualified THEN "pkg." \o sname ELSE sname

\* the place of a call in the template text as text/template prints it,
\* line:column; the text the generator parses is not part of this repository
Pos == "<line>:<col>"

\* the context text/template prints for a node: the node in full, or, where
\* the text/template of the build cuts it (Go before 1.12), its first 20
\* bytes
ErrorContext(node, cuts) ==
    IF cuts /\ Len(node) > 20 THEN SubSeq(node, 1, 20) \o "..." ELSE node

\* the error text/template returns when the function fn, called by the
\* command node, returned the error msg or panicked with it and was recovered
ExecError(node, fn, msg, cuts) ==
    "template: interface:" \o Pos \o ": executing \"interface\" at <"
        \o ErrorContext(node, cuts) \o ">: error calling " \o fn \o ": " \o msg

\* the failure r of the call of fn by the command node, as the execution of
\* the template reports it
ExecFailure(r, node, fn, cuts) ==
    [r EXCEPT !.val = ExecError(node, fn, r.val, cuts)]

\* the command of the range body that calls fn
Command(fn) == fn \o (IF fn = "mutates" THEN " $methodName" ELSE " $method")

\* the text before the range: the type the decorator wraps
Header(kind, cuts) ==
    IF kind = "grpcadapter"
    THEN LET r == FuncGRPCAdapterServer(InterfaceVar) IN
         IF r.status # "ok"
         THEN ExecFailure(r, "grpcadapterclient $interfaceName", "grpcadapterclient",
                          cuts)
         ELSE r
    ELSE Value(InterfaceVar)

\* one pass through the range body, from call i on
RECURSIVE RenderFrom(_, _, _, _, _, _)
RenderFrom(kind, methodName, f, i, out, cuts) ==
    IF i > Len(Body(kind)) THEN Value(out)
    ELSE LET fn == Body(kind)[i]
             r == TemplateFunc(fn, methodName, f)
         IN IF r.status # "ok" THEN ExecFailure(r, Command(fn), fn, cuts)
            ELSE RenderFrom(kind, methodName, f, i + 1, [out EXCEPT ![fn] = r.val],
                            cuts)

\* the text of one method of the decorator
MethodText(kind, methodName, out) ==
    [name |-> methodName,
     signature |-> out["signature"],
     call |-> DelegateCall(kind, methodName, out),
     errReturn |-> ErrReturn(out),
     okReturn |-> OkReturn(out)]

\* the orders in which the Go runtime can hand out the keys of the map m:
\* a Go map keeps no order of insertion and is iterated in any order
MapOrders(m) ==
    {ks \in [1..Cardinality(DOMAIN m) -> DOMAIN m] :
        \A i, j \in DOMAIN ks : i # j => ks[i] # ks[j]}

\* the method name a sorts before the method name b
Less(a, b) ==
    \E i, j \in 1..Len(MethodNames) :
        i < j /\ MethodNames[i] = a /\ MethodNames[j] = b

\* the keys ks with the key k put at its place: ks is sorted
Insert(ks, k) ==
    LET before == SelectSeq(ks, LAMBDA x : Less(x, k))
        after == SelectSeq(ks, LAMBDA x : ~Less(x, k))
    IN before \o <<k>> \o after

\* the keys as the map handed them out
KeysAsMet(ks) == ks

\* text/template sorts the keys of a map with string keys before it ranges
RECURSIVE SortKeys(_)
SortKeys(ks) ==
    IF ks = <<>> THEN <<>>
    ELSE Insert(SortKeys(SubSeq(ks, 1, Len(ks) - 1)), ks[Len(ks)])

\* `range $methodName, $method := .` over the keys in the order given
RECURSIVE RangeFrom(_, _, _, _, _, _)
RangeFrom(kind, m, keys, i, acc, cuts) ==
    IF i > Len(keys) THEN Value(acc)
    ELSE LET n == keys[i]
             r == RenderFrom(kind, n, m[n], 1, NoOutput, cuts)
         IN IF r.status # "ok" THEN r
            ELSE RangeFrom(kind, m, keys, i + 1,
                           Append(acc, MethodText(kind, n, r.val)), cuts)

\* executing the template of the kind against the method map, whose keys
\* the runtime hands out in the order it
Execute(kind, m, cuts, it) ==
    LET h == Header(kind, cuts) IN
    IF h.status # "ok" THEN h
    ELSE LET r == RangeFrom(kind, m, SortKeys(it), 1, <<>>, cuts) IN
         IF r.status # "ok" THEN r
         ELSE Value([next |-> h.val, bodies |-> r.val])

\* gen.ProcessTemplate("interface", template, v.methods); cuts: the
\* text/template of the build cuts the context of an error; it: the order
\* in which the map hands out its keys in this run
ProcessTemplate ==
    /\ pc = "render"
    /\ \E cuts \in BOOLEAN, it \in MapOrders(methods) :
       LET r == Execute(template, methods, cuts, it) IN
        IF r.status = "ok"
        THEN /\ rendered' = r.val
             /\ pc' = "write"
             /\ UNCHANGED result
        ELSE IF r.status = "error"
        THEN /\ Return(Wrap(r.val, "failed to process template"))
             /\ UNCHANGED rendered
        ELSE \* a panic in a template function: text/template hands it back
             \* as an error where it recovers panics, else it unwinds Generate
             /\ \/ Return(Wrap(r.val, "failed to process template"))
                \/ pc' = "panic" /\ UNCHANGED result
             /\ UNCHANGED rendered
    /\ UNCHANGED <<template, sname, qualified, walked, methods, verr, writes, file,
                   vcalls>>
    /\ UNCHANGED <<fnVars, rtVars>>

\* gen.WriteToFilename(outputFile)
WriteToFilename ==
    /\ pc = "write"
    /\ writes' = writes + 1
    /\ \E ok \in BOOLEAN :
        IF ok THEN file' = rendered /\ Return("")
        ELSE UNCHANGED file /\ Return(Wrap("write failed", "failed to write file"))
    /\ UNCHANGED <<template, sname, qualified, walked, methods, verr, rendered,
                   vcalls>>
    /\ UNCHANGED <<fnVars, rtVars>>

Next ==
    \/ PackageOfSource
    \/ PackageOfDest
    \/ CreateProgram
    \/ Visit
    \/ EndWalk
    \/ ProcessTemplate
    \/ WriteToFilename

Spec == Init /\ [][Next]_vars

----------------------------------------------------------------------------
(* Properties of Generate (specification Spec)                            *)

\* the walk met an interface declaration of the requested name
NamedInterfaces ==
    {i \in 1..Len(walked) : walked[i].kind = "interface" /\ walked[i].name = sname}

\* a method the shipped validator has to reject
LacksContext(f) == Len(f.params) = 0 \/ f.params[1].type # TContext

\* the names of the methods of the requested interface that lack the context
BadMethodNames ==
    UNION {{walked[i].methods[j].name :
                j \in {k \in 1..Len(walked[i].methods) :
                          LacksContext(walked[i].methods[k].sig)}} :
           i \in NamedInterfaces}

\* the run is over: Generate returned, or the process ended inside it
Ended == pc \in {"done", "fatal", "panic"}

\* C1: for every template kind, once the walk has met the requested
\* interface with a method whose parameter list is empty or whose first
\* parameter is not context.Context, nothing is rendered and nothing is
\* written, and what Generate returns is an error naming such a method.
C1_ValidationFailureAborts ==
    BadMethodNames # {} =>
        /\ pc \in {"walk", "done", "fatal"}
        /\ rendered = NoText
        /\ writes = 0
        /\ file = NoText
        /\ pc = "done" =>
            \E n \in BadMethodNames :
                result = "failed to parse interface: failed to validate method '"
                            \o n \o "': first param must be context.Context"

\* C1 witness: Generate returned for the grpcadapter kind on an interface
\* with one method without parameters and one with a first parameter of
\* another type
C1_Witness ==
    /\ pc = "done"
    /\ template = "grpcadapter"
    /\ Cardinality(BadMethodNames) = 2
    /\ \E i \in NamedInterfaces :
        /\ Len(walked[i].methods) = 2
        /\ Len(walked[i].methods[1].sig.params) = 0

\* C2: the output file is written at most once, and only in a run in which
\* the packages resolved, the program loaded, the walk ended without error,
\* every method of the requested interface passed validation and the
\* template was rendered; a run that failed in one of these steps ends with
\* no write and an empty file.
C2_WriteOnceAfterAllSteps ==
    /\ writes \in {0, 1}
    /\ writes = 1 =>
        /\ pc = "done"
        /\ verr = ""
        /\ BadMethodNames = {}
        /\ rendered # NoText
        /\ result \in {"<nil>", "failed to write file: write failed"}
    /\ file # NoText => writes = 1 /\ file = rendered /\ result = "<nil>"
    /\ (Ended /\ result \notin {"<nil>", "failed to write file: write failed"}) =>
        writes = 0 /\ file = NoText
    /\ pc = "write" => verr = "" /\ rendered # NoText /\ writes = 0

\* C2 witness: a run wrote the decorator of a two-method interface
C2_Witness ==
    /\ pc = "done"
    /\ writes = 1
    /\ result = "<nil>"
    /\ Len(file.bodies) = 2

\* C3 (as claimed): a run over a package that declares no interface of the
\* requested name (no declaration of that name, or a struct only) does not
\* end in success.
C3_MissingInterfaceFails ==
    (pc = "done" /\ NamedInterfaces = {}) => result # "<nil>"

\* C9: for the grpcadapter kind, a rendered decorator wraps the type named
\* like the interface with the final "Client" replaced by "Server", and a
\* run for an interface name that does not end in "Client" renders nothing,
\* writes nothing and returns the error of the template function.
C9_ClientSuffix ==
    template = "grpcadapter" =>
        /\ rendered # NoText =>
            /\ sname \in {"FooClient", "ClientFooClient"}
            /\ sname = "FooClient" =>
                rendered.next = (IF qualified THEN "pkg.FooServer" ELSE "FooServer")
            /\ sname = "ClientFooClient" =>
                rendered.next = (IF qualified THEN "pkg.ClientFooServer"
                                 ELSE "ClientFooServer")
        /\ sname = "Foo" =>
            /\ rendered = NoText /\ writes = 0 /\ file = NoText
            /\ pc # "write"
            /\ pc = "done" => result # "<nil>"
            /\ (pc = "done" /\ verr = "") =>
                result \in {"failed to get sourcePath: no such package",
                            "failed to get destPath: no such package",
                            "failed to create program: load failed",
                            "failed to process template: template: interface:"
                                \o "<line>:<col>: executing \"interface\" at "
                                \o "<grpcadapterclient $i...>: error calling "
                                \o "grpcadapterclient: the specified interface "
                                \o "wasn't a client",
                            "failed to process template: template: interface:"
                                \o "<line>:<col>: executing \"interface\" at "
                                \o "<grpcadapterclient $interfaceName>: error "
                                \o "calling grpcadapterclient: the specified "
                                \o "interface wasn't a client"}
            /\ (pc = "done" /\ verr = "" /\ walked # <<>>) =>
                /\ HasPrefix(result, "failed to process template: template: interface:")
                /\ HasSuffix(result, ": error calling grpcadapterclient: "
                                        \o "the specified interface wasn't a client")

\* C9 witness: an adapter was written for the interface ClientFooClient of
\* another package, wrapping pkg.ClientFooServer
C9_Witness ==
    /\ template = "grpcadapter"
    /\ pc = "done"
    /\ sname = "ClientFooClient"
    /\ qualified
    /\ file.next = "pkg.ClientFooServer"
    /\ Len(file.bodies) > 0

----------------------------------------------------------------------------
(* Properties of the template functions (specification SpecFn)            *)

\* the results before a closing error: the positions returnerr fills
NonTerminal(rs) == {i \in 1..Len(rs) : ~(i = Len(rs) /\ rs[i] = TError)}

\* int64, string, bool and the named types over them
PrimitiveLike(t) ==
    t.cls \in {"Basic", "Named"} /\ t.under \in {"int64", "string", "bool"}

\* the zero value of Go for a type of the model that has a literal
ZeroLiteral(t) ==
    IF t.under = "int64" THEN "0"
    ELSE IF t.under = "string" THEN "\"\""
    ELSE IF t.under = "bool" THEN "false"
    ELSE "nil"

\* the printed type of a parameter in a signature
ParamText(p) == IF p.variadic THEN "...grpc.CallOption" ELSE p.type.str

\* C4: the name of parameter i is ctx at index 0 of type context.Context,
\* else req at index 1 of a list of two, else param<i>; so (ctx, T) is
\* named ctx, req, (ctx) is named ctx, (ctx, A, B) is named ctx, param1,
\* param2, and the names of one list are pairwise distinct.
C4_ParamNames ==
    fout["signature"] # "<none>" =>
        LET ps == fsig.params
            n == Len(ps)
            names == CallNames(ps)
        IN /\ \A i \in 1..n :
                names[i] = IF i = 1 /\ ps[1].type = TContext THEN "ctx"
                           ELSE IF n = 2 /\ i = 2 THEN "req"
                           ELSE "param" \o ToString(i - 1)
           /\ \A i, j \in 1..n : i # j => names[i] # names[j]
           /\ fout["call"] # "<none>" =>
                /\ fout["call"] = Join(names, ", ")
                /\ (n = 1 /\ ps[1].type = TContext) => fout["call"] = "ctx"
                /\ (n = 2 /\ ps[1].type = TContext) => fout["call"] = "ctx, req"
                /\ (n = 3 /\ ps[1].type = TContext) =>
                        fout["call"] = "ctx, param1, param2"
                /\ (n = 2 /\ ps[1].type # TContext) => fout["call"] = "param0, req"

\* C4 witness: call was rendered for a method of three parameters
C4_Witness ==
    /\ Len(fsig.params) = 3
    /\ fsig.params[1].type = TContext
    /\ fout["call"] = "ctx, param1, param2"

\* C5: returnerr renders 0 for a result before the closing error of type
\* int64, "" for string, false for bool, and the literal of the underlying
\* type for a named type over one of the three.
C5_ZeroValues ==
    fout["returnerr"] # "<none>" =>
        LET rs == fsig.results
            loop == ReturnErrLoop(rs, 1, <<>>)
            k == Cardinality(NonTerminal(rs))
        IN /\ loop.status = "ok" =>
                \A i \in NonTerminal(rs) :
                    PrimitiveLike(rs[i]) => loop.val[i] = ZeroLiteral(rs[i])
           /\ (\A i \in NonTerminal(rs) : PrimitiveLike(rs[i])) =>
                fout["returnerr"] =
                    IF k = 0 THEN ""
                    ELSE Join([i \in 1..k |-> ZeroLiteral(rs[i])], ", ") \o ","
           /\ rs = <<TInt64, TString>> => fout["returnerr"] = "0, \"\","
           /\ rs = <<TBool, TError>> => fout["returnerr"] = "false,"
           /\ rs = <<TMyName, TMyID>> => fout["returnerr"] = "\"\", 0,"
           /\ rs = <<TMyFlag, TError>> => fout["returnerr"] = "false,"

\* C5 witness: returnerr was rendered for a named type over string followed
\* by a named type over int64
C5_Witness ==
    /\ fsig.results = <<TMyName, TMyID>>
    /\ fout["returnerr"] = "\"\", 0,"

\* a struct, pointer, interface, slice or map type, named or not
Composite(t) == t.cls # "Basic" /\ ~PrimitiveLike(t)

\* the method is one the shipped validator lets through
Accepted == Len(fsig.params) > 0 /\ fsig.params[1].type = TContext

\* C6 (as claimed): in a method the validator accepts, a result before the
\* closing error of a composite type makes returnerr refuse, and the body
\* is aborted.
C6_CompositeIsFatal ==
    (fout["returnerr"] # "<none>"
        /\ Accepted
        /\ \E i \in NonTerminal(fsig.results) : Composite(fsig.results[i])) =>
        fout["returnerr"] = "<panic>" /\ fpc = Aborted

\* C6 (amended): a result before the closing error that is a named type
\* over anything but int64, string or bool makes returnerr panic, which
\* aborts the body before any return statement is rendered; a result of an
\* unnamed composite type (pointer, slice, ...) is never refused: where
\* returnerr returns, its position holds the literal nil.
C6_NamedCompositeIsFatal ==
    fout["returnerr"] # "<none>" =>
        LET rs == fsig.results
            loop == ReturnErrLoop(rs, 1, <<>>)
        IN /\ (\E i \in NonTerminal(rs) : rs[i].cls = "Named" /\ ~PrimitiveLike(rs[i])) =>
                fout["returnerr"] = "<panic>"
           /\ fout["returnerr"] = "<panic>" =>
                fpc = Aborted /\ fout["returnok"] = "<none>"
           /\ (\A i \in NonTerminal(rs) : rs[i].cls \notin {"Named", "Basic"}) =>
                fout["returnerr"] # "<panic>"
           /\ fout["returnerr"] # "<panic>" =>
                \A i \in NonTerminal(rs) :
                    rs[i].cls \notin {"Named", "Basic"} => loop.val[i] = "nil"

\* C6 witness: returnerr rendered nil for the pointer of a method
\* returning (*Response, int64)
C6_Witness ==
    /\ Accepted
    /\ fsig.results = <<TResponse, TInt64>>
    /\ fout["returnerr"] = "nil, 0,"

\* the integer types of the model
IntegerTypes == {TInt64, TInt}

\* C7 (as claimed): in a method the validator accepts, every result before
\* the closing error of an integer type is rendered as 0.
C7_EveryIntegerIsZero ==
    (fout["returnerr"] # "<none>"
        /\ Accepted
        /\ NonTerminal(fsig.results) # {}
        /\ \A i \in NonTerminal(fsig.results) : fsig.results[i] \in IntegerTypes) =>
        fout["returnerr"] =
            Join([i \in 1..Cardinality(NonTerminal(fsig.results)) |-> "0"], ", ") \o ","

\* C8: for a result list closed by error, the error return lists the zero
\* values of the results before the error in order, then the wrapped error,
\* and the success return lists arg0 .. arg(n-2) in order, then nil; for
\* (*Response, error) these are (nil, <wrapped err>) and (arg0, nil).
C8_ReturnShapes ==
    (FnDone /\ Len(fsig.results) > 0 /\ fsig.results[Len(fsig.results)] = TError) =>
        LET rs == fsig.results
            n == Len(rs)
        IN /\ OkReturn(fout) =
                "return " \o Join([i \in 1..n |-> IF i = n THEN "nil"
                                                 ELSE "arg" \o ToString(i - 1)], ", ")
           /\ ErrReturn(fout) =
                IF n = 1 THEN "return  errors.WithStack(err)"
                ELSE "return " \o Join([i \in 1..n |-> IF i = n THEN "errors.WithStack(err)"
                                                      ELSE ZeroLiteral(rs[i])], ", ")
           /\ rs = <<TResponse, TError>> =>
                /\ ErrReturn(fout) = "return nil, errors.WithStack(err)"
                /\ OkReturn(fout) = "return arg0, nil"
           /\ rs = <<TString, TResponse, TError>> =>
                /\ ErrReturn(fout) = "return \"\", nil, errors.WithStack(err)"
                /\ OkReturn(fout) = "return arg0, arg1, nil"
           /\ rs = <<TResponse, TString, TError>> =>
                /\ ErrReturn(fout) = "return nil, \"\", errors.WithStack(err)"
                /\ OkReturn(fout) = "return arg0, arg1, nil"

\* C8 witness: the body of a method returning (string, *Response, error) was
\* rendered: two results before the error, each at its own position
C8_Witness ==
    /\ FnDone
    /\ fsig.results = <<TString, TResponse, TError>>
    /\ fout["returnerr"] = "\"\", nil,"
    /\ fout["returnok"] = "arg0, arg1, nil"

\* C10: the call of a grpcadapter method forwards the names of parameters
\* 0 .. n-2 in order, the names the signature gives them, never the last
\* parameter, and nothing for a method of one parameter.
C10_ForwardAllButLast ==
    fout["callgrpcadapter"] # "<none>" =>
        LET ps == fsig.params
            n == Len(ps)
            names == CallNames(ps)
        IN /\ fout["signature"] =
                "(" \o Join([i \in 1..n |-> names[i] \o " " \o ParamText(ps[i])], ", ")
                    \o ") ("
                    \o Join([i \in 1..Len(fsig.results) |-> fsig.results[i].str], ", ")
                    \o ")"
           /\ n <= 1 => fout["callgrpcadapter"] = ""
           /\ n >= 1 => fout["callgrpcadapter"] = Join(SubSeq(names, 1, n - 1), ", ")
           /\ (n = 3 /\ ps[1].type = TContext) => fout["callgrpcadapter"] = "ctx, param1"
           /\ (n = 2 /\ ps[1].type = TContext) => fout["callgrpcadapter"] = "ctx"

\* C10 witness: a method (ctx, request, ...options) forwarded ctx, param1
C10_Witness ==
    /\ fkind = "grpcadapter"
    /\ Len(fsig.params) = 3
    /\ fsig.params[3].variadic
    /\ fout["callgrpcadapter"] = "ctx, param1"

(***************************************************************************)
(* SpecMutex: goroutines calling the methods of one decorator generated    *)
(* from mutexTemplate; every method has the body of the range loop.        *)
(***************************************************************************)

\* the goroutines that call the decorator
NumGoroutines == 2

\* the calls one goroutine makes
MaxCalls == 2

Goroutines == 1..NumGoroutines

\* where a goroutine is: outside any method, or inside method m at a line;
\* outcome is how the delegate ended in its latest call
Outside(outcome) == [at |-> "outside", method |-> "", outcome |-> outcome]

InMethod(at, m, outcome) == [at |-> at, method |-> m, outcome |-> outcome]

InitMutex ==
    /\ GenIdle
    /\ FnIdle
    /\ TxIdle
    /\ CliIdle
    /\ gpc = [g \in Goroutines |-> Outside("<none>")]
    /\ mutex = FALSE
    /\ gcalls = [g \in Goroutines |-> 0]

\* goroutine g calls method m of the decorator
MutexCall(g) ==
    /\ gpc[g].at = "outside"
    /\ gcalls[g] < MaxCalls
    /\ \E m \in {MethodNames[i] : i \in 1..Len(MethodNames)} :
        gpc' = [gpc EXCEPT ![g] = InMethod("lock", m, @.outcome)]
    /\ UNCHANGED <<mutex, gcalls>>
    /\ UNCHANGED <<genVars, fnVars, txVars, cli>>

\* t.mutex.Lock(): blocks while the mutex is locked
MutexLock(g) ==
    /\ gpc[g].at = "lock"
    /\ ~mutex
    /\ mutex' = TRUE
    /\ gpc' = [gpc EXCEPT ![g].at = "defer"]
    /\ UNCHANGED gcalls
    /\ UNCHANGED <<genVars, fnVars, txVars, cli>>

\* defer t.mutex.Unlock(); var err error; then t.next.M(...) is entered
MutexDelegate(g) ==
    /\ gpc[g].at = "defer"
    /\ gpc' = [gpc EXCEPT ![g].at = "next"]
    /\ UNCHANGED <<mutex, gcalls>>
    /\ UNCHANGED <<genVars, fnVars, txVars, cli>>

\* t.next.M(...) returns without error, returns an error, or panics
MutexDelegateEnds(g) ==
    /\ gpc[g].at = "next"
    /\ \E outcome \in {"ok", "err", "panic"} :
        gpc' = [gpc EXCEPT ![g] = InMethod("return", @.method, outcome)]
    /\ UNCHANGED <<mutex, gcalls>>
    /\ UNCHANGED <<genVars, fnVars, txVars, cli>>

\* the method unlocks only on the two return statements, not by defer
MutexReturnUnlockingOnReturnOnly(g) ==
    /\ gpc[g].at = "return"
    /\ mutex' = IF gpc[g].outcome = "panic" THEN mutex ELSE FALSE
    /\ gpc' = [gpc EXCEPT ![g] = Outside(@.outcome)]
    /\ gcalls' = [gcalls EXCEPT ![g] = @ + 1]
    /\ UNCHANGED <<genVars, fnVars, txVars, cli>>

\* the method ends by either return statement or by the panic unwinding:
\* the deferred t.mutex.Unlock() runs
MutexReturn(g) ==
    /\ gpc[g].at = "return"
    /\ mutex' = FALSE
    /\ gpc' = [gpc EXCEPT ![g] = Outside(@.outcome)]
    /\ gcalls' = [gcalls EXCEPT ![g] = @ + 1]
    /\ UNCHANGED <<genVars, fnVars, txVars, cli>>

NextMutex ==
    \E g \in Goroutines :
        \/ MutexCall(g)
        \/ MutexLock(g)
        \/ MutexDelegate(g)
        \/ MutexDelegateEnds(g)
        \/ MutexReturn(g)

SpecMutex == InitMutex /\ [][NextMutex]_vars

\* the goroutines that hold the lock: between Lock and the deferred Unlock
Holders == {g \in Goroutines : gpc[g].at \in {"defer", "next", "return"}}

\* the goroutines inside the delegate
InDelegate == {g \in Goroutines : gpc[g].at = "next"}

\* C11: calls of the methods of one mutex decorator are mutually exclusive:
\* at most one goroutine is inside the delegate; the lock is taken before the
\* delegate is entered and held until the method ends, by return or by panic;
\* the lock is free whenever no goroutine is between Lock and the end of its
\* method, in particular whenever no call is in progress.
C11_MutualExclusion ==
    /\ Cardinality(InDelegate) <= 1
    /\ Cardinality(Holders) <= 1
    /\ mutex <=> Holders # {}
    /\ (\A g \in Goroutines : gpc[g].at = "outside") => ~mutex

\* C11 witness: a goroutine whose previous call panicked is inside the
\* delegate again while another goroutine waits in Lock
C11_Witness ==
    \E g, h \in Goroutines :
        /\ gpc[g].at = "next"
        /\ gpc[g].outcome = "panic"
        /\ gcalls[g] > 0
        /\ gpc[h].at = "lock"

(***************************************************************************)
(* SpecTx: concurrent calls of one method of a decorator generated from    *)
(* sqltxTemplate; mutates is true for every method, so the body is the     *)
(* transactional branch.  fsig is the signature of the method.             *)
(***************************************************************************)

\* the calls of the method
MaxTxCalls == 2

TxCallIds == 1..MaxTxCalls

\* result lists the decorator is generated for: returnerr renders for each
TxSigs ==
    {Sig(<<Param(TContext, FALSE)>>, rs) :
        rs \in {<<TError>>, <<TResponse, TError>>, <<TInt64, TString, TError>>}}

\* the messages of the errors of the database and of the delegate
ErrBegin == "unable to start transaction"

ErrsDelegate == {"not found", "conflict"}

ErrRollback == "rollback refused"

ErrCommit == "commit refused"

\* nothing returned
NoReturn == [values |-> "<none>", err |-> "<none>"]

\* `return {{returnerr $method}} <err>`
ReturnsErr(f, err) == [values |-> FuncReturnErr(f).val, err |-> err]

\* `return {{returnok $method}}`
ReturnsOK(f) == [values |-> FuncReturnOK(f).val, err |-> "<nil>"]

\* errors.WithStack(err): the message of err
WithStack(err) == err

\* the error of line 132 without txErr
RollbackFailureDroppingTxErr(err, txErr) == WithStack(err)

\* errors.Wrapf(err, "failed to rollback transaction for error (%v)", txErr)
RollbackFailure(err, txErr) ==
    Wrap(err, "failed to rollback transaction for error (" \o txErr \o ")")

\* the method returns normally after recover() stopped a panic without a
\* return statement having run: the results are unnamed, so the caller gets
\* the zero value of each, a nil error included
ReturnsZero == [values |-> "<zero values>", err |-> "<nil>"]

\* the values a panic can carry: panic(nil), or any other value
PanicValues == {"nil", "value"}

\* a call that has not started
TxNotCalled ==
    [at |-> "caller", tx |-> 0, repository |-> 0, err |-> "<nil>",
     txErr |-> "<nil>", p |-> "<none>", ret |-> NoReturn]

InitTx ==
    /\ GenIdle
    /\ MutexIdle
    /\ CliIdle
    /\ fpc = Aborted
    /\ fkind = "sqltx"
    /\ fsig \in TxSigs
    /\ fout = NoOutput
    /\ tpc = [c \in TxCallIds |-> TxNotCalled]
    /\ txs = <<>>

\* the method is called
TxCall(c) ==
    /\ tpc[c].at = "caller"
    /\ tpc' = [tpc EXCEPT ![c].at = "begin"]
    /\ UNCHANGED txs
    /\ UNCHANGED <<genVars, fnVars, mutexVars, cli>>

\* tx, err := t.db.Begin(); on failure the method returns; a panic of Begin
\* unwinds the method, no deferred function being registered yet
TxBegin(c) ==
    /\ tpc[c].at = "begin"
    /\ \/ /\ txs' = Append(txs, [owner |-> c, commits |-> 0, rollbacks |-> 0])
          /\ tpc' = [tpc EXCEPT ![c].at = "constructor", ![c].tx = Len(txs) + 1]
       \/ /\ tpc' = [tpc EXCEPT ![c].at = "returned", ![c].err = ErrBegin,
                                ![c].ret = ReturnsErr(fsig, ErrBegin)]
          /\ UNCHANGED txs
       \/ /\ \E p \in PanicValues :
                tpc' = [tpc EXCEPT ![c].at = "panicked", ![c].p = p]
          /\ UNCHANGED txs
    /\ UNCHANGED <<genVars, fnVars, mutexVars, cli>>

\* defer func(){...}(); repository := t.constructor(tx)
TxConstructor(c) ==
    /\ tpc[c].at = "constructor"
    /\ \/ tpc' = [tpc EXCEPT ![c].at = "delegate", ![c].repository = tpc[c].tx]
       \/ \E p \in PanicValues :
            tpc' = [tpc EXCEPT ![c].at = "recover", ![c].p = p]
    /\ UNCHANGED txs
    /\ UNCHANGED <<genVars, fnVars, mutexVars, cli>>

\* {{results}} repository.M({{call}}): returns nil, an error, or panics
TxDelegate(c) ==
    /\ tpc[c].at = "delegate"
    /\ \/ tpc' = [tpc EXCEPT ![c].at = "commit"]
       \/ \E err \in ErrsDelegate :
            tpc' = [tpc EXCEPT ![c].at = "rollback", ![c].err = err]
       \/ \E p \in PanicValues :
            tpc' = [tpc EXCEPT ![c].at = "recover", ![c].p = p]
    /\ UNCHANGED txs
    /\ UNCHANGED <<genVars, fnVars, mutexVars, cli>>

\* err != nil: txErr := tx.Rollback() and the two error returns; Rollback
\* may panic
TxRollback(c) ==
    /\ tpc[c].at = "rollback"
    /\ txs' = [txs EXCEPT ![tpc[c].tx].rollbacks = @ + 1]
    /\ \/ tpc' = [tpc EXCEPT ![c].at = "returned",
                             ![c].ret = ReturnsErr(fsig, WithStack(tpc[c].err))]
       \/ tpc' = [tpc EXCEPT ![c].at = "returned", ![c].txErr = ErrRollback,
                             ![c].ret = ReturnsErr(fsig,
                                            RollbackFailure(tpc[c].err, ErrRollback))]
       \/ \E p \in PanicValues :
            tpc' = [tpc EXCEPT ![c].at = "recover", ![c].p = p]
    /\ UNCHANGED <<genVars, fnVars, mutexVars, cli>>

\* err = tx.Commit() and the two returns that follow; Commit may panic
TxCommit(c) ==
    /\ tpc[c].at = "commit"
    /\ txs' = [txs EXCEPT ![tpc[c].tx].commits = @ + 1]
    /\ \/ tpc' = [tpc EXCEPT ![c].at = "returned", ![c].ret = ReturnsOK(fsig)]
       \/ tpc' = [tpc EXCEPT ![c].at = "returned", ![c].err = ErrCommit,
                             ![c].ret = ReturnsErr(fsig, WithStack(ErrCommit))]
       \/ \E p \in PanicValues :
            tpc' = [tpc EXCEPT ![c].at = "recover", ![c].p = p]
    /\ UNCHANGED <<genVars, fnVars, mutexVars, cli>>

\* the deferred function during a panic: `if p := recover(); p != nil`.
\* recover() stops the panic.  For panic(nil) it returns nil when the
\* program is built with Go before 1.21: the guard is false and the method
\* returns normally; from Go 1.21 on it returns a *runtime.PanicNilError.
\* With p != nil: tx.Rollback(); panic(p)
TxRecover(c) ==
    /\ tpc[c].at = "recover"
    /\ \E recovered \in (IF tpc[c].p = "nil" THEN {"nil", "PanicNilError"}
                         ELSE {tpc[c].p}) :
        IF recovered = "nil"
        THEN /\ tpc' = [tpc EXCEPT ![c].at = "recovered", ![c].ret = ReturnsZero]
             /\ UNCHANGED txs
        ELSE /\ txs' = [txs EXCEPT ![tpc[c].tx].rollbacks = @ + 1]
             /\ tpc' = [tpc EXCEPT ![c].at = "panicked"]
    /\ UNCHANGED <<genVars, fnVars, mutexVars, cli>>

NextTx ==
    \E c \in TxCallIds :
        \/ TxCall(c)
        \/ TxBegin(c)
        \/ TxConstructor(c)
        \/ TxDelegate(c)
        \/ TxRollback(c)
        \/ TxCommit(c)
        \/ TxRecover(c)

SpecTx == InitTx /\ [][NextTx]_vars

\* the call has ended: by a return statement, by a panic, or by returning
\* after recover() stopped a panic
TxEnded(c) == tpc[c].at \in {"returned", "panicked", "recovered"}

\* the transactions call c began
TxOf(c) == {i \in 1..Len(txs) : txs[i].owner = c}

\* C12 (as claimed): each call begins its own transaction and builds its
\* delegate from that transaction only; after a delegate error the
\* transaction is rolled back and never committed; after a delegate success
\* it is committed and never rolled back, and a failed commit is the error
\* the method returns; a transaction that was begun has had exactly one
\* commit or rollback attempt once its call has ended, also after a panic.
C12_OneTransactionPerCall ==
    /\ \A c \in TxCallIds :
        /\ Cardinality(TxOf(c)) <= 1
        /\ tpc[c].tx # 0 => TxOf(c) = {tpc[c].tx}
        /\ tpc[c].repository # 0 => tpc[c].repository = tpc[c].tx
        /\ \A d \in TxCallIds : (c # d /\ tpc[c].tx # 0) => tpc[c].tx # tpc[d].tx
        /\ tpc[c].at \in {"delegate", "rollback", "commit"} =>
                tpc[c].repository = tpc[c].tx /\ tpc[c].tx # 0
        /\ (tpc[c].at = "returned" /\ tpc[c].err \in ErrsDelegate) =>
                txs[tpc[c].tx] = [owner |-> c, commits |-> 0, rollbacks |-> 1]
        /\ (tpc[c].at = "returned" /\ tpc[c].err \in {"<nil>", ErrCommit}) =>
                txs[tpc[c].tx] = [owner |-> c, commits |-> 1, rollbacks |-> 0]
        /\ (tpc[c].at = "returned" /\ tpc[c].err = ErrCommit) =>
                tpc[c].ret.err = ErrCommit
        /\ (tpc[c].at = "returned" /\ tpc[c].err = "<nil>") =>
                tpc[c].ret.err = "<nil>"
        /\ (tpc[c].at = "returned" /\ tpc[c].err = ErrBegin) => tpc[c].tx = 0
    /\ \A i \in 1..Len(txs) :
        /\ txs[i].commits + txs[i].rollbacks <= 1
        /\ TxEnded(txs[i].owner) => txs[i].commits + txs[i].rollbacks = 1

\* sub occurs in s
Contains(s, sub) ==
    \E i \in 1..(Len(s) - Len(sub) + 1) : SubSeq(s, i, i + Len(sub) - 1) = sub

\* the values before the error of an error return: the zero value of each
\* result that is not the closing error, each followed by a comma
ZeroValues(rs) ==
    LET nt == IF Len(rs) > 0 /\ rs[Len(rs)] = TError THEN Len(rs) - 1 ELSE Len(rs)
    IN IF nt = 0 THEN ""
       ELSE Join([i \in 1..nt |-> ZeroLiteral(rs[i])], ", ") \o ","

\* C13: when the delegate failed and the rollback failed too, the returned
\* error names both the error of the delegate and the error of the rollback;
\* when the delegate failed and the rollback succeeded, the returned error is
\* the error of the delegate; in both cases the values returned before the
\* error are the zero values of the results.
C13_RollbackErrors ==
    \A c \in TxCallIds :
        (tpc[c].at = "returned" /\ tpc[c].err \in ErrsDelegate) =>
            /\ tpc[c].ret.values = ZeroValues(fsig.results)
            /\ tpc[c].txErr # "<nil>" =>
                /\ Contains(tpc[c].ret.err, tpc[c].err)
                /\ Contains(tpc[c].ret.err, tpc[c].txErr)
                /\ tpc[c].ret.err =
                     "failed to rollback transaction for error (" \o tpc[c].txErr
                        \o "): " \o tpc[c].err
            /\ tpc[c].txErr = "<nil>" => tpc[c].ret.err = tpc[c].err

\* C13 witness: a method (int64, string, error) whose delegate failed and
\* whose rollback failed returned 0, "" and the composite error, while
\* another call's rollback succeeded
C13_Witness ==
    \E c, d \in TxCallIds :
        /\ fsig.results = <<TInt64, TString, TError>>
        /\ tpc[c].at = "returned"
        /\ tpc[c].err = "conflict"
        /\ tpc[c].txErr = ErrRollback
        /\ tpc[c].ret.values = "0, \"\","
        /\ tpc[d].at = "returned"
        /\ tpc[d].err = "not found"
        /\ tpc[d].txErr = "<nil>"
        /\ tpc[d].ret.err = "not found"

(***************************************************************************)
(* Properties of the validation run (specification Spec)                   *)
(***************************************************************************)

\* the methods of declaration i of the walk that the shipped validator rejects
BadMethods(i) ==
    {k \in 1..Len(walked[i].methods) : LacksContext(walked[i].methods[k].sig)}

\* the first interface of the requested name with a method that fails
FirstFailing ==
    {i \in NamedInterfaces :
        /\ BadMethods(i) # {}
        /\ \A j \in NamedInterfaces : j < i => BadMethods(j) = {}}

\* the first method of declaration i that fails
FirstBad(i) == CHOOSE k \in BadMethods(i) : \A l \in BadMethods(i) : k <= l

\* the validator was called for method k of declaration i
Validated(i, k) ==
    \E j \in 1..Len(vcalls) :
        vcalls[j] = [decl |-> i, method |-> walked[i].methods[k].name]

\* C14 (as claimed): when a method of the interface fails validation, every
\* method of that interface is validated all the same before generation
\* aborts.
C14_ValidatesRemainingMethods ==
    \A i \in FirstFailing :
        \A k \in 1..Len(walked[i].methods) : Validated(i, k)

\* C14: when a method of the interface fails validation, processInterface
\* returns at once: the methods before it were validated in order and
\* recorded, the failing method is the last one any validator was called
\* for, no later method is validated or recorded, and Generate returns the
\* error of that first failing method.
C14_StopsAtFirstFailure ==
    \A i \in FirstFailing :
        LET ms == walked[i].methods
            k == FirstBad(i)
        IN /\ vcalls # <<>>
           /\ vcalls[Len(vcalls)] = [decl |-> i, method |-> ms[k].name]
           /\ \A l \in 1..Len(ms) : Validated(i, l) <=> l <= k
           /\ \A j \in 1..Len(vcalls) : vcalls[j].decl <= i
           /\ DOMAIN methods =
                {ms[l].name : l \in 1..(k - 1)}
                \cup UNION {{walked[j].methods[l].name : l \in 1..Len(walked[j].methods)} :
                                j \in {n \in NamedInterfaces : n < i}}
           /\ verr = "failed to validate method '" \o ms[k].name
                        \o "': first param must be context.Context"
           /\ pc = "done" => result = "failed to parse interface: " \o verr

\* C14 witness: Generate returned after the first of two methods failed; the
\* second method, which the validator accepts, was never validated
C14_Witness ==
    /\ pc = "done"
    /\ \E i \in FirstFailing :
        /\ Len(walked[i].methods) = 2
        /\ FirstBad(i) = 1
        /\ ~LacksContext(walked[i].methods[2].sig)
        /\ ~Validated(i, 2)
        /\ Validated(i, 1)

(***************************************************************************)
(* Determinism of Generate (specification Spec): the run is compared with  *)
(* a second run on the same source, kind and names.                        *)
(***************************************************************************)

\* the walk of Generate over the declarations ds from declaration i on:
\* Visit for each, with the method map m and v.err
RECURSIVE WalkFrom(_, _, _, _)
WalkFrom(ds, i, m, err) ==
    IF i > Len(ds) THEN [methods |-> m, err |-> err]
    ELSE IF ds[i].kind = "interface" /\ ds[i].name = sname /\ err = ""
    THEN LET p == processInterface(ds[i], m) IN
         WalkFrom(ds, i + 1, p.methods, p.err)
    ELSE WalkFrom(ds, i + 1, m, err)

\* the method map of a second run of Generate on the same source: the
\* files and their declarations are walked in the same order
SecondRun == WalkFrom(walked, 1, <<>>, "")

\* C15: the text a run of Generate rendered is the text a second run with
\* the same source, template kind and names renders, whatever the order in
\* which the map of methods hands out its keys in that run and whatever
\* the build prints for errors; the method bodies stand in the order of
\* the sorted method names.
C15_Deterministic ==
    rendered # NoText =>
        /\ SecondRun.err = ""
        /\ SecondRun.methods = methods
        /\ \A it \in MapOrders(SecondRun.methods), cuts \in BOOLEAN :
                Execute(template, SecondRun.methods, cuts, it) = Value(rendered)
        /\ \A i, j \in 1..Len(rendered.bodies) :
                i < j => Less(rendered.bodies[i].name, rendered.bodies[j].name)
        /\ file # NoText => file = rendered

\* C15 witness: a decorator of two methods was rendered for the sqltx kind
\* from a walk over two declarations
C15_Witness ==
    /\ pc = "write"
    /\ template = "sqltx"
    /\ Len(walked) = 2
    /\ Len(rendered.bodies) = 2
    /\ rendered.bodies[1].name = "Get"
    /\ rendered.bodies[2].name = "Put"

(***************************************************************************)
(* SpecCli: the command, cmd.Execute, from flag.Parse to the call of       *)
(* Generate and the exit of the process.                                   *)
(***************************************************************************)

\* the positional arguments the command line can hold
MaxArgs == 2

\* the decorator types a command line asks for: none, the four of
\* decgen.Templates, and one that is not in the map
DecTypes == {""} \cup Templates \cup {"bogus"}

\* Generate has not been called
NotCalled == [template |-> "<none>", sourcePath |-> "<none>", interfaceName |-> "<none>",
              outputFile |-> "<none>", structName |-> "<none>"]

\* the process is running
Running == -1

InitCli ==
    /\ GenIdle
    /\ FnIdle
    /\ MutexIdle
    /\ TxIdle
    /\ \E i \in {"", "Foo"}, s \in {"", "Dec"}, o \in {"", "out.go"},
          t \in DecTypes, n \in 0..MaxArgs, h \in BOOLEAN :
        cli = [at |-> "parse", interfaceName |-> i, structName |-> s, given |-> s,
               outputFile |-> o, decType |-> t, nargs |-> n, help |-> h,
               generators |-> 0, generate |-> NotCalled, exit |-> Running]

\* os.Exit(status), or the process ending with that status
Exit(status) == cli' = [cli EXCEPT !.at = "exited", !.exit = status]

\* flag.Parse() of the ExitOnError flag set: with -h or -help among the
\* flags it prints the usage and exits, with status 0 when built with Go
\* 1.15 or later and with status 2 before; it exits with status 2 when it
\* cannot parse the command line
CliParse ==
    /\ cli.at = "parse"
    /\ IF cli.help
       THEN \E status \in {0, 2} : Exit(status)
       ELSE \E ok \in BOOLEAN :
                IF ok THEN cli' = [cli EXCEPT !.at = "required"] ELSE Exit(2)
    /\ UNCHANGED <<genVars, fnVars, mutexVars, txVars>>

\* the test of the required inputs
CliRequired ==
    /\ cli.at = "required"
    /\ IF cli.interfaceName = "" \/ cli.outputFile = "" \/ cli.nargs # 1
            \/ cli.decType = ""
       THEN Exit(1)
       ELSE cli' = [cli EXCEPT !.at = "template"]
    /\ UNCHANGED <<genVars, fnVars, mutexVars, txVars>>

\* the lookup of the template without the test of ok
CliTemplateUnchecked ==
    /\ cli.at = "template"
    /\ cli' = [cli EXCEPT !.at = "structName"]
    /\ UNCHANGED <<genVars, fnVars, mutexVars, txVars>>

\* template, ok := decgen.Templates[*decType]
CliTemplate ==
    /\ cli.at = "template"
    /\ IF cli.decType \notin Templates
       THEN Exit(1)
       ELSE cli' = [cli EXCEPT !.at = "structName"]
    /\ UNCHANGED <<genVars, fnVars, mutexVars, txVars>>

\* the default of the struct name
CliStructName ==
    /\ cli.at = "structName"
    /\ cli' = [cli EXCEPT !.at = "newGenerator",
                          !.structName = IF @ = "" THEN cli.interfaceName \o "Tracer"
                                         ELSE @]
    /\ UNCHANGED <<genVars, fnVars, mutexVars, txVars>>

\* gen := decgen.NewGenerator(template, fn)
CliNewGenerator ==
    /\ cli.at = "newGenerator"
    /\ cli' = [cli EXCEPT !.at = "generate", !.generators = @ + 1]
    /\ UNCHANGED <<genVars, fnVars, mutexVars, txVars>>

\* err := gen.Generate(...): Generate returns nil or an error, or the process
\* ends inside it by log.Fatal or by a panic
CliGenerate ==
    /\ cli.at = "generate"
    /\ \E outcome \in {"nil", "error", "fatal", "panic"} :
        cli' = [cli EXCEPT
                    !.at = "exited",
                    !.generate = [template |-> cli.decType, sourcePath |-> "arg0",
                                  interfaceName |-> cli.interfaceName,
                                  outputFile |-> cli.outputFile,
                                  structName |-> cli.structName],
                    !.exit = IF outcome = "nil" THEN 0
                             ELSE IF outcome = "panic" THEN 2 ELSE 1]
    /\ UNCHANGED <<genVars, fnVars, mutexVars, txVars>>

NextCli ==
    \/ CliParse
    \/ CliRequired
    \/ CliTemplate
    \/ CliStructName
    \/ CliNewGenerator
    \/ CliGenerate

SpecCli == InitCli /\ [][NextCli]_vars

\* the command line lacks a required input or asks for an unknown kind
InvalidInputs ==
    \/ cli.interfaceName = ""
    \/ cli.outputFile = ""
    \/ cli.decType = ""
    \/ cli.nargs # 1
    \/ cli.decType \notin {"trace", "sqltx", "grpcadapter", "mutex"}

\* C16 (as claimed): with the interface name, the output file or the
\* decorator type missing, with a number of positional arguments other than
\* one, or with a decorator type other than trace, sqltx, grpcadapter,
\* mutex, the command never constructs a Generator, never calls Generate
\* and exits with a status other than zero; with valid inputs and no struct
\* name Generate is called with the struct name "<interfaceName>Tracer".
C16_UsageErrors ==
    /\ InvalidInputs =>
        /\ cli.generators = 0
        /\ cli.generate = NotCalled
        /\ cli.at = "exited" => cli.exit # 0
    /\ (cli.generate # NotCalled /\ cli.given = "") =>
        cli.generate.structName = cli.interfaceName \o "Tracer"

\* C16: with a required input missing, a number of positional arguments
\* other than one or an unknown decorator type, the command never
\* constructs a Generator and never calls Generate, and it exits with
\* status 1 or 2, unless the command line holds -h or -help: then it exits
\* in flag.Parse, with status 0 or 2, whatever the other inputs are.  The
\* status 0 means that Generate was called, or that help was asked for.
\* Generate is called with the flags as given and, when no struct name was
\* given, with the struct name "<interfaceName>Tracer".
C16_UsageErrorsUnlessHelp ==
    /\ InvalidInputs =>
        /\ cli.generators = 0
        /\ cli.generate = NotCalled
        /\ cli.at \in {"parse", "required", "template", "exited"}
        /\ (cli.at = "exited" /\ ~cli.help) => cli.exit \in {1, 2}
    /\ cli.help =>
        /\ cli.generators = 0
        /\ cli.generate = NotCalled
        /\ cli.at \in {"parse", "exited"}
        /\ cli.at = "exited" => cli.exit \in {0, 2}
    /\ cli.generate # NotCalled =>
        /\ ~InvalidInputs
        /\ cli.generators = 1
        /\ cli.generate.template = cli.decType
        /\ cli.generate.interfaceName = cli.interfaceName
        /\ cli.generate.outputFile = cli.outputFile
        /\ cli.generate.structName =
              IF cli.given = "" THEN cli.interfaceName \o "Tracer" ELSE cli.given
    /\ cli.exit = 0 => (cli.generate # NotCalled \/ cli.help)

\* C16 witness: a command line complete but for a decorator type that is
\* not in decgen.Templates exited with status 1
C16_Witness ==
    /\ cli.at = "exited"
    /\ cli.exit = 1
    /\ cli.decType = "bogus"
    /\ cli.interfaceName = "Foo"
    /\ cli.outputFile = "out.go"
    /\ cli.nargs = 1
    /\ ~cli.help
    /\ cli.generators = 0

(***************************************************************************)
(* Properties of the bindings and of the return statements (SpecFn)        *)
(***************************************************************************)

\* the name the delegate call binds result i of the list rs to
BoundName(rs, i) ==
    IF i = Len(rs) /\ rs[i] = TError THEN "err" ELSE "arg" \o ToString(i - 1)

\* C17: results renders the names of the results in declared order, err for
\* a closing error and arg<i> for every other position i, then = when the
\* result list is the single error and := for every other list; every
\* arg<i> the success return lists is one of the names bound, at its own
\* position, and the closing error is returned as nil.
C17_Bindings ==
    fout["results"] # "<none>" =>
        LET rs == fsig.results
            n == Len(rs)
            names == [i \in 1..n |-> BoundName(rs, i)]
        IN /\ fout["results"] =
                Join(names, ", ") \o (IF rs = <<TError>> THEN " = " ELSE " := ")
           /\ HasSuffix(fout["results"], " = ") <=> rs = <<TError>>
           /\ HasSuffix(fout["results"], " := ") <=> rs # <<TError>>
           /\ rs = <<TError>> => fout["results"] = "err = "
           /\ rs = <<>> => fout["results"] = " := "
           /\ fout["returnok"] # "<none>" =>
                fout["returnok"] =
                    Join([i \in 1..n |-> IF names[i] = "err" THEN "nil" ELSE names[i]],
                         ", ")

\* C17 witness: the body of a method returning only an error was rendered:
\* the error is assigned to the err declared before, and nil is returned
C17_Witness ==
    /\ FnDone
    /\ fsig.results = <<TError>>
    /\ fout["results"] = "err = "
    /\ fout["returnok"] = "nil"

\* the commas of a text
Commas(s) == Cardinality({i \in 1..Len(s) : SubSeq(s, i, i) = ","})

\* the number of values a return statement lists after the keyword
ReturnedValues(stmt) ==
    IF stmt \in {"return", "return "} THEN 0 ELSE Commas(stmt) + 1

\* C18: in the rendered body of a method the shipped validator accepts, the
\* success return lists as many values as the method declares results; the
\* error return lists as many when the last result is error, and one value
\* more than the method declares when it is not.
C18_ReturnCounts ==
    (FnDone /\ Accepted) =>
        LET rs == fsig.results
            n == Len(rs)
        IN /\ ReturnedValues(OkReturn(fout)) = n
           /\ (n > 0 /\ rs[n] = TError) => ReturnedValues(ErrReturn(fout)) = n
           /\ ~(n > 0 /\ rs[n] = TError) => ReturnedValues(ErrReturn(fout)) = n + 1
           /\ ReturnedValues(ErrReturn(fout)) = n <=> (n > 0 /\ rs[n] = TError)

\* C18 witness: the body of an accepted method returning (int64, string)
\* was rendered: two values on success, three on the error path
C18_Witness ==
    /\ FnDone
    /\ Accepted
    /\ fsig.results = <<TInt64, TString>>
    /\ OkReturn(fout) = "return arg0, arg1"
    /\ ErrReturn(fout) = "return 0, \"\", errors.WithStack(err)"

====
